---- MODULE Spec2Model ----
(***************************************************************************)
(* A model of the ONE-Analysis/utilities scripts:                          *)
(*   - TreeCanopyReclass.py : chunked raster reclassification              *)
(*   - census_download.py / census_test.py : paginated TIGERweb fetch      *)
(*   - census_bg_download.py : batched ACS fetch with retry                *)
(*   - the GEOID construction and the left merge on GEOID                  *)
(*   - census_download.py as a whole: county loop, paging, merge, export   *)
(*   - persistent_poverty.py : the CSV read with its fallback encodings    *)
(* The scripts do not interact; each has its own specification over its    *)
(* own variables, the variables of the other scripts staying idle.         *)
(***************************************************************************)
EXTENDS Integers, Sequences, FiniteSets, TLC

\* ------------------------------------------------------------------ bounds
\* Largest number of pixels (width * height) of a raster whose pixel values
\* are enumerated (SpecReclass).
MaxPixels == 6
\* Largest width and height of a raster with a fixed pixel pattern (SpecTile).
MaxSide == 5
\* Largest chunk edge; larger than MaxSide so that a chunk can exceed the raster.
MaxChunk == 6
\* The page size asked of TIGERweb (resultRecordCount is 1000 in the scripts;
\* the model pages by this many features).
resultRecordCount == 2
\* Largest number of free bytes on the output disk (SpecTile).
MaxFree == 4
\* Largest number of bytes of the poverty-tract CSV.
MaxCsvBytes == 3
\* Largest number of page requests of one fetch.
MaxRequests == 3
\* Largest number of ACS variables, largest batch size and largest number of
\* data rows (block groups) of a county.
MaxVars == 3
MaxBatch == 2
MaxAcsRows == 2
\* Largest number of boundary features and of tabular rows in a join.
MaxBoundaries == 3
MaxTabular == 3
\* fetch_acs_batch(..., max_retries=5)
max_retries == 5

Min(a, b) == IF a <= b THEN a ELSE b

\* ------------------------------------------------------------------ state
VARIABLES
  \* TreeCanopyReclass.py
  width, height,      \* src.width, src.height
  CHUNK_SIZE,         \* the chunk edge (25000 in the script)
  src_data,           \* band 1 of the input raster: <<col, row>> -> value
  dst_data,           \* band 1 of the output raster, defined on the pixels written
  dst_state,          \* "unopened", "open", "closed"
  i, j,               \* column and row offset of the next window
  total_chunks,       \* tqdm total
  pbar_n,             \* tqdm counter
  written,            \* the windows passed to dst.write, in order
  free_space,         \* free bytes on the disk of the output directory
  prompted,           \* input() has been called
  response,           \* what input() returned, "" while it has not been called
  reclass_pc          \* "preflight", "start", "cancelled", "loop", "close",
                      \* "done"

VARIABLES
  \* census_download.py / census_test.py: the TIGERweb paging loop
  resultOffset,       \* params["resultOffset"]
  tiger_features,     \* the accumulated feature list
  tiger_offsets,      \* the resultOffset of every request issued, in order
  tiger_statuses,     \* the status code of every response, in order
  tiger_pages,        \* the feature list of every 200 response, in order
  tiger_error,        \* <<>>, or <<status>> carried by the raised Exception
  geojson_data,       \* <<>>, or <<features>> once the fetch has returned
  geojson_file,       \* <<>>, or <<features>> once the output file is written
  tiger_pc            \* "loop", "returned", "raised", "saved", "reported"

VARIABLES
  \* census_bg_download.py: fetch_acs_data_for_county and fetch_acs_batch
  variables,          \* the variable names asked for
  batch_size,         \* batch_size (100 in the script)
  acs_rows,           \* the number of block groups the API holds for the county
  batch_idx,          \* position in var_batches, from 1
  batch_calls,        \* calls of fetch_acs_batch made so far
  batch_ok,           \* for every finished call: did it return a response
  retry,              \* the retry loop's counter in the running call
  acs_requests,       \* requests.get calls of the running call
  acs_sleeps,         \* the backoff sleeps of the running call, in order
  acs_saw200,         \* the running call got a response with status 200
  acs_last,           \* the outcome of the call's latest request
  batch_data,         \* what the call returned: <<>> for None, or the response
  all_data,           \* the accumulated table: header row, then data rows
  county_data,        \* <<>>, or <<[columns, rows]>>: the returned DataFrame
  acs_pc              \* "attempt", "merge", "finish", "returned_df",
                      \* "returned_none", "value_error"

VARIABLES
  \* census_download.py (tract level) and census_bg_download.py (block group
  \* level): GEOID on both sides, then the left merge and the export
  join_level,         \* "tract" or "block group": which script runs
  tiger_has_geoid,    \* the TIGER features come with a GEOID column
  tiger_gdf,          \* the boundary frame: a sequence of feature records
  acs_df,             \* the tabular frame: a sequence of row records
  merged_gdf,         \* the merged frame
  output_geojson,     \* <<>>, or <<frame>> once the output file is written
  join_pc             \* "acs_geoid", "tiger_geoid", "merge", "export", "done"

VARIABLES
  \* census_download.py: the ACS request loop over the counties
  county_idx,         \* position in nyc_counties, from 1
  census_header,      \* header: <<>>, or the header row of the first 200 response
  acs_data_rows,      \* the accumulated data rows
  county_errors,      \* the counties whose request was answered non-200
  census_pc           \* "counties", "frame", "raised", "framed"

VARIABLES
  \* persistent_poverty.py: reading the poverty-tract CSV
  csv_bytes,          \* the bytes of the CSV file
  csv_tried,          \* the encodings read_csv was called with, in order
  poverty_tracts,     \* <<>>, or <<text>>: the decoded table
  poverty_pc          \* the encoding to try next, or "loaded", "raised"

reclassVars == <<width, height, CHUNK_SIZE, src_data, dst_data, dst_state,
                 i, j, total_chunks, pbar_n, written, free_space, prompted,
                 response, reclass_pc>>

tigerVars == <<resultOffset, tiger_features, tiger_offsets, tiger_statuses,
               tiger_pages, tiger_error, geojson_data, geojson_file, tiger_pc>>

acsVars == <<variables, batch_size, acs_rows, batch_idx, batch_calls, batch_ok,
             retry, acs_requests, acs_sleeps, acs_saw200, acs_last, batch_data,
             all_data, county_data, acs_pc>>

joinVars == <<join_level, tiger_has_geoid, tiger_gdf, acs_df, merged_gdf,
              output_geojson, join_pc>>

censusVars == <<county_idx, census_header, acs_data_rows, county_errors, census_pc>>

povertyVars == <<csv_bytes, csv_tried, poverty_tracts, poverty_pc>>

vars == <<reclassVars, tigerVars, acsVars, joinVars, censusVars, povertyVars>>

\* The scripts are separate programs: while one runs, the state of the
\* others stays as it is.
IdleReclass ==
  /\ width = 0
  /\ height = 0
  /\ CHUNK_SIZE = 0
  /\ src_data = <<>>
  /\ dst_data = <<>>
  /\ dst_state = "unopened"
  /\ i = 0
  /\ j = 0
  /\ total_chunks = 0
  /\ pbar_n = 0
  /\ written = <<>>
  /\ free_space = 0
  /\ prompted = FALSE
  /\ response = ""
  /\ reclass_pc = "idle"

IdleTiger ==
  /\ resultOffset = 0
  /\ tiger_features = <<>>
  /\ tiger_offsets = <<>>
  /\ tiger_statuses = <<>>
  /\ tiger_pages = <<>>
  /\ tiger_error = <<>>
  /\ geojson_data = <<>>
  /\ geojson_file = <<>>
  /\ tiger_pc = "idle"

IdleJoin ==
  /\ join_level = "tract"
  /\ tiger_has_geoid = FALSE
  /\ tiger_gdf = <<>>
  /\ acs_df = <<>>
  /\ merged_gdf = <<>>
  /\ output_geojson = <<>>
  /\ join_pc = "idle"

IdleCensus ==
  /\ county_idx = 0
  /\ census_header = <<>>
  /\ acs_data_rows = <<>>
  /\ county_errors = <<>>
  /\ census_pc = "idle"

IdlePoverty ==
  /\ csv_bytes = <<>>
  /\ csv_tried = <<>>
  /\ poverty_tracts = <<>>
  /\ poverty_pc = "idle"

IdleAcs ==
  /\ variables = <<>>
  /\ batch_size = 0
  /\ acs_rows = 0
  /\ batch_idx = 0
  /\ batch_calls = 0
  /\ batch_ok = <<>>
  /\ retry = 0
  /\ acs_requests = 0
  /\ acs_sleeps = <<>>
  /\ acs_saw200 = FALSE
  /\ acs_last = "none"
  /\ batch_data = <<>>
  /\ all_data = <<>>
  /\ county_data = <<>>
  /\ acs_pc = "idle"

\* =================================================== TreeCanopyReclass.py
PixelValues == {0, 1, 2}

Pixels(W, H) == (0 .. W - 1) \X (0 .. H - 1)

\* The pixels a rasterio Window covers.
WindowPixels(win) ==
  (win.col_off .. win.col_off + win.width - 1)
    \X (win.row_off .. win.row_off + win.height - 1)

win_width_noclip(col) == CHUNK_SIZE
win_width(col) == Min(CHUNK_SIZE, width - col)

win_height(row) == Min(CHUNK_SIZE, height - row)

Window(col, row) ==
  [col_off |-> col, row_off |-> row, width |-> win_width(col), height |-> win_height(row)]

\* src.read(1, window=window): the window's part of the band.
ReadWindow(win) ==
  [p \in WindowPixels(win) \cap DOMAIN src_data |-> src_data[p]]

\* np.where(data == 1, 1, 0).astype('uint8'), element-wise.
ReclassValueLoose(v) == IF v >= 1 THEN 1 ELSE 0
ReclassValue(v) == IF v = 1 THEN 1 ELSE 0

Reclass(data) == [p \in DOMAIN data |-> ReclassValue(data[p])]

\* dst.write(reclass, 1, window=window)
WriteWindowAtOrigin(out, data) ==
  LET c0 == CHOOSE c \in {p[1] : p \in DOMAIN data} : \A q \in DOMAIN data : c <= q[1]
      r0 == CHOOSE r \in {p[2] : p \in DOMAIN data} : \A q \in DOMAIN data : r <= q[2]
      moved == [p \in {<<q[1] - c0, q[2] - r0>> : q \in DOMAIN data} |->
                  data[<<p[1] + c0, p[2] + r0>>]]
  IN [p \in DOMAIN out \cup DOMAIN moved |-> IF p \in DOMAIN moved THEN moved[p] ELSE out[p]]
WriteWindow(out, data) ==
  [p \in DOMAIN out \cup DOMAIN data |-> IF p \in DOMAIN data THEN data[p] ELSE out[p]]

TotalChunksFloor ==
  (height \div CHUNK_SIZE) * (width \div CHUNK_SIZE)
TotalChunks ==
  ((height + CHUNK_SIZE - 1) \div CHUNK_SIZE) * ((width + CHUNK_SIZE - 1) \div CHUNK_SIZE)

\* estimate_output_size(width, height, compression_factor=0.3), in tenths of
\* a byte. The script divides the estimate and the free space alike by
\* 1024**3; the comparison of line 32 is made here on the undivided sizes.
estimate_output_size(W, H) == W * H * 3

\* free_space * 0.8, in tenths of a byte, free_space being in bytes.
SafeSpace(free) == free * 8

\* What the user can type at the prompt.
Responses == {"y", "Y", "n", "N", "yes", ""}

\* str.lower()
lower_asis(str) == str
lower(str) ==
  CASE str = "Y" -> "y"
    [] str = "N" -> "n"
    [] OTHER -> str

ReclassStart(W, H, C, data) ==
  /\ width = W
  /\ height = H
  /\ CHUNK_SIZE = C
  /\ src_data = data
  /\ dst_data = [p \in {} |-> 0]
  /\ dst_state = "unopened"
  /\ i = 0
  /\ j = 0
  /\ total_chunks = 0
  /\ pbar_n = 0
  /\ written = <<>>
  /\ prompted = FALSE
  /\ response = ""
  /\ reclass_pc = "preflight"

\* Every raster of at most MaxPixels pixels, every pixel value, on a disk
\* with room for it.
InitReclass ==
  \E W \in 1 .. MaxPixels, H \in 1 .. MaxPixels, C \in 1 .. MaxChunk :
    /\ W * H <= MaxPixels
    /\ free_space = MaxPixels
    /\ \E data \in [Pixels(W, H) -> PixelValues] : ReclassStart(W, H, C, data)
    /\ IdleTiger
    /\ IdleAcs
    /\ IdleJoin
    /\ IdleCensus
    /\ IdlePoverty

\* Every raster of sides up to MaxSide, with one pixel pattern, on a disk
\* with up to MaxFree free bytes.
InitTile ==
  \E W \in 1 .. MaxSide, H \in 1 .. MaxSide, C \in 1 .. MaxChunk :
    /\ free_space \in 0 .. MaxFree
    /\ ReclassStart(W, H, C, [p \in Pixels(W, H) |-> (p[1] + 2 * p[2]) % 3])
    /\ IdleTiger
    /\ IdleAcs
    /\ IdleJoin
    /\ IdleCensus
    /\ IdlePoverty

\* Lines 28-37: the estimate is compared with the free space; beyond the
\* threshold the user is asked, and any answer but y or Y ends the run.
Preflight(answer) ==
  /\ reclass_pc = "preflight"
  /\ IF estimate_output_size(width, height) > SafeSpace(free_space)
       THEN /\ prompted' = TRUE
            /\ response' = answer
            /\ reclass_pc' = IF lower(answer) # "y" THEN "cancelled" ELSE "start"
       ELSE /\ reclass_pc' = "start"
            /\ UNCHANGED <<prompted, response>>
  /\ UNCHANGED <<width, height, CHUNK_SIZE, src_data, dst_data, dst_state, i, j,
                 total_chunks, pbar_n, written, free_space>>
  /\ UNCHANGED <<tigerVars, acsVars, joinVars, censusVars, povertyVars>>

\* Lines 51-58: the total is computed, the output is opened, the loops start.
OpenOutput ==
  /\ reclass_pc = "start"
  /\ total_chunks' = TotalChunks
  /\ dst_state' = "open"
  /\ i' = 0
  /\ j' = 0
  /\ reclass_pc' = "loop"
  /\ UNCHANGED <<width, height, CHUNK_SIZE, src_data, dst_data, pbar_n, written>>
  /\ UNCHANGED <<free_space, prompted, response>>
  /\ UNCHANGED <<tigerVars, acsVars, joinVars, censusVars, povertyVars>>

\* Lines 59-73: one iteration of the inner loop, and the step of the two
\* range() iterators to the next window.
ProcessWindow ==
  /\ reclass_pc = "loop"
  /\ LET window == Window(i, j)
         data == ReadWindow(window)
         reclass == Reclass(data)
     IN /\ dst_data' = WriteWindow(dst_data, reclass)
        /\ written' = Append(written, window)
  /\ pbar_n' = pbar_n + 1
  /\ IF i + CHUNK_SIZE < width
       THEN /\ i' = i + CHUNK_SIZE
            /\ UNCHANGED <<j, reclass_pc>>
       ELSE IF j + CHUNK_SIZE < height
         THEN /\ i' = 0
              /\ j' = j + CHUNK_SIZE
              /\ UNCHANGED reclass_pc
         ELSE /\ reclass_pc' = "close"
              /\ UNCHANGED <<i, j>>
  /\ UNCHANGED <<width, height, CHUNK_SIZE, src_data, dst_state, total_chunks>>
  /\ UNCHANGED <<free_space, prompted, response>>
  /\ UNCHANGED <<tigerVars, acsVars, joinVars, censusVars, povertyVars>>

\* Line 57: leaving the with block closes the output.
CloseOutput ==
  /\ reclass_pc = "close"
  /\ dst_state' = "closed"
  /\ reclass_pc' = "done"
  /\ UNCHANGED <<width, height, CHUNK_SIZE, src_data, dst_data, i, j,
                 total_chunks, pbar_n, written>>
  /\ UNCHANGED <<free_space, prompted, response>>
  /\ UNCHANGED <<tigerVars, acsVars, joinVars, censusVars, povertyVars>>

NextReclass ==
  \/ \E answer \in Responses : Preflight(answer)
  \/ OpenOutput
  \/ ProcessWindow
  \/ CloseOutput

SpecReclass == InitReclass /\ [][NextReclass]_vars

SpecTile == InitTile /\ [][NextReclass]_vars

\* ---------------------------------------------------------------- C1
WindowsOf(p) == {k \in 1 .. Len(written) : p \in WindowPixels(written[k])}

\* C1: the windows the loops generate never extend past column W or row H,
\* no pixel ever lies in two of them, and once the loops have ended every
\* pixel of the W x H grid lies in exactly one window.
C1_WindowsTileGrid ==
  /\ \A k \in 1 .. Len(written) :
       /\ written[k].width >= 1
       /\ written[k].height >= 1
       /\ written[k].col_off >= 0
       /\ written[k].row_off >= 0
       /\ written[k].col_off + written[k].width <= width
       /\ written[k].row_off + written[k].height <= height
  /\ \A p \in Pixels(width, height) : Cardinality(WindowsOf(p)) <= 1
  /\ reclass_pc \in {"close", "done"} =>
       \A p \in Pixels(width, height) : Cardinality(WindowsOf(p)) = 1

\* A finished run over a grid that needs clipped windows on both axes.
C1_Witness ==
  /\ reclass_pc = "done"
  /\ width = 5
  /\ height = 5
  /\ CHUNK_SIZE = 2
  /\ Len(written) = 9
  /\ written[9] = [col_off |-> 4, row_off |-> 4, width |-> 1, height |-> 1]

\* ---------------------------------------------------------------- C2
\* C2: when the chunked run has completed, every pixel of the raster has an
\* output value, and it is 1 if the input value there is 1 and 0 otherwise.
C2_OutputIsMask ==
  reclass_pc = "done" =>
    /\ DOMAIN dst_data = Pixels(width, height)
    /\ \A p \in Pixels(width, height) :
         /\ dst_data[p] \in {0, 1}
         /\ dst_data[p] = 1 <=> src_data[p] = 1

\* A finished run of several windows, one of them clipped, over a raster that
\* holds the sentinel value, the value 0 and another class.
C2_Witness ==
  /\ reclass_pc = "done"
  /\ width = 3
  /\ height = 2
  /\ CHUNK_SIZE = 2
  /\ Len(written) = 2
  /\ {src_data[p] : p \in DOMAIN src_data} = PixelValues

\* ---------------------------------------------------------------- C15
C15_State ==
  /\ \A k \in 1 .. Len(tiger_offsets) : tiger_offsets[k] = (k - 1) * resultRecordCount
  /\ Len(tiger_statuses) = Len(tiger_offsets)
  /\ \A k \in 1 .. Len(tiger_pages) - 1 : Len(tiger_pages[k]) = resultRecordCount
  /\ tiger_pc = "loop" =>
       \A k \in 1 .. Len(tiger_pages) : Len(tiger_pages[k]) = resultRecordCount
  /\ (tiger_pages # <<>> /\ Len(tiger_pages[Len(tiger_pages)]) < resultRecordCount) =>
       tiger_pc \in {"returned", "saved"}

C15_Step ==
  /\ Len(tiger_offsets') \in {Len(tiger_offsets), Len(tiger_offsets) + 1}
  /\ tiger_pc # "loop" => tiger_offsets' = tiger_offsets /\ tiger_pc' # "loop"

\* C15: the k-th request of a fetch carries the offset (k - 1) * P, one
\* request at a time; every page before the last one received is full; the
\* loop is still running only if every page so far was full, and the fetch
\* has returned as soon as a page had fewer than P features (none included);
\* once the loop has ended no further request is issued.
C15_SequentialPaging == []C15_State /\ [][C15_Step]_vars

\* Two full pages and then the extra request that comes back empty.
C15_Witness ==
  /\ tiger_pc = "returned"
  /\ tiger_offsets = <<0, resultRecordCount, 2 * resultRecordCount>>
  /\ Len(tiger_pages) = 3
  /\ Len(tiger_pages[1]) = resultRecordCount
  /\ Len(tiger_pages[2]) = resultRecordCount
  /\ tiger_pages[3] = <<>>

\* ---------------------------------------------------------------- C13
\* C13: the user is asked exactly when the estimated output size is more
\* than 80% of the free space, and is asked before the output is opened;
\* after any answer other than y or Y the run has ended with the output
\* never opened and no window read or written; without the prompt, or after
\* y or Y, the run goes on.
C13_PreflightPrompt ==
  LET exceeds == 10 * estimate_output_size(width, height) > 8 * (10 * free_space)
      agreed == response \in {"y", "Y"}
  IN /\ prompted => exceeds /\ reclass_pc # "preflight"
     /\ (exceeds /\ reclass_pc # "preflight") => prompted
     /\ ~prompted => response = ""
     /\ (prompted /\ ~agreed) =>
          /\ reclass_pc = "cancelled"
          /\ dst_state = "unopened"
          /\ DOMAIN dst_data = {}
          /\ written = <<>>
          /\ pbar_n = 0
     /\ reclass_pc = "cancelled" => prompted /\ ~agreed
     /\ dst_state # "unopened" => ~exceeds \/ (prompted /\ agreed)

\* A run over a raster too large for the disk, declined at the prompt.
C13_Witness ==
  /\ reclass_pc = "cancelled"
  /\ width = 5
  /\ height = 5
  /\ free_space = 4
  /\ prompted
  /\ response = "n"
  /\ dst_state = "unopened"

\* ---------------------------------------------------------------- C16
\* The window that follows win in the order of the loops has a larger row
\* offset, or the same row offset and a larger column offset.
Follows(win, next) ==
  \/ next.row_off > win.row_off
  \/ next.row_off = win.row_off /\ next.col_off > win.col_off

C16_State ==
  /\ written # <<>> => dst_state # "unopened"
  /\ dst_state = "closed" =>
       /\ reclass_pc = "done"
       /\ UNION {WindowPixels(written[k]) : k \in 1 .. Len(written)} = Pixels(width, height)
  /\ \A k \in 1 .. Len(written) - 1 : Follows(written[k], written[k + 1])
  /\ DOMAIN dst_data = UNION {WindowPixels(written[k]) : k \in 1 .. Len(written)}
  /\ \A p \in DOMAIN dst_data : dst_data[p] = IF src_data[p] = 1 THEN 1 ELSE 0

C16_Step ==
  /\ dst_state' # dst_state =>
       \/ dst_state = "unopened" /\ dst_state' = "open" /\ written = <<>>
       \/ dst_state = "open" /\ dst_state' = "closed"
  /\ dst_state = "closed" => dst_data' = dst_data /\ written' = written
  /\ written' # written =>
       /\ dst_state = "open"
       /\ dst_state' = "open"
       /\ Len(written') = Len(written) + 1
       /\ SubSeq(written', 1, Len(written)) = written

\* C16: the output is opened once, before the first window is written; the
\* windows are written one at a time in increasing row offset and, within a
\* row of windows, increasing column offset, each at the pixels it was read
\* from; the output is closed once, after the last window, and nothing is
\* written after the close.
C16_OutputLifecycle == []C16_State /\ [][C16_Step]_vars

\* A finished run of three rows of three windows.
C16_Witness ==
  /\ dst_state = "closed"
  /\ width = 5
  /\ height = 5
  /\ CHUNK_SIZE = 2
  /\ Len(written) = 9
  /\ written[2] = [col_off |-> 2, row_off |-> 0, width |-> 2, height |-> 2]
  /\ written[4] = [col_off |-> 0, row_off |-> 2, width |-> 2, height |-> 2]

\* ---------------------------------------------------------------- C17
\* The least n with n * b >= a.
Ceil(a, b) == CHOOSE n \in 0 .. a : n * b >= a /\ (n = 0 \/ (n - 1) * b < a)

\* C17: the progress counter is 0 until the first window is written and is
\* the number of windows written so far; once the total is computed it is
\* ceil(H/C) * ceil(W/C), the counter never exceeds it, and the counter
\* equals it exactly when the last window has been written.
C17_ProgressCounter ==
  /\ pbar_n = Len(written)
  /\ reclass_pc \in {"preflight", "start", "cancelled"} => pbar_n = 0
  /\ reclass_pc \in {"loop", "close", "done"} =>
       /\ total_chunks = Ceil(height, CHUNK_SIZE) * Ceil(width, CHUNK_SIZE)
       /\ pbar_n <= total_chunks
       /\ pbar_n = total_chunks <=> reclass_pc \in {"close", "done"}

\* 5 x 5 with chunks of 2: 3 x 3 = 9 windows, the last row and column of
\* windows 1 wide or high, the others 2 x 2.
C17_Witness ==
  /\ reclass_pc = "done"
  /\ width = 5
  /\ height = 5
  /\ CHUNK_SIZE = 2
  /\ total_chunks = 9
  /\ pbar_n = 9
  /\ written[1] = [col_off |-> 0, row_off |-> 0, width |-> 2, height |-> 2]
  /\ written[3] = [col_off |-> 4, row_off |-> 0, width |-> 1, height |-> 2]
  /\ written[7] = [col_off |-> 0, row_off |-> 4, width |-> 2, height |-> 1]

\* ======================= census_download.py / census_test.py: TIGER paging
\* The loop of census_download.py lines 112-126 is the loop of
\* download_nyc_census_tracts (census_test.py lines 34-49); the latter returns
\* the list, and its caller writes the file or reports the exception.
Features == {"a", "b"}

StatusCodes == {200, 404, 500}

\* What a page can hold: up to resultRecordCount features, repeats allowed.
PageBodies == UNION {[1 .. n -> Features] : n \in 0 .. resultRecordCount}

\* if tiger_resp.status_code != 200: raise
StatusOkLoose(status) == status < 500
StatusOk(status) == status = 200

\* tiger_features.extend(feats)
ExtendDistinct(features, feats) ==
  features \o SelectSeq(feats, LAMBDA f : \A k \in 1 .. Len(features) : features[k] # f)
Extend(features, feats) == features \o feats

InitTiger ==
  /\ resultOffset = 0
  /\ tiger_features = <<>>
  /\ tiger_offsets = <<>>
  /\ tiger_statuses = <<>>
  /\ tiger_pages = <<>>
  /\ tiger_error = <<>>
  /\ geojson_data = <<>>
  /\ geojson_file = <<>>
  /\ tiger_pc = "loop"
  /\ IdleReclass
  /\ IdleAcs
  /\ IdleJoin
  /\ IdleCensus
  /\ IdlePoverty

\* tiger_params["resultOffset"] += tiger_params["resultRecordCount"]
NextOffsetByOne(offset) == offset + 1
NextOffset(offset) == offset + resultRecordCount

\* One iteration of `while True`: a request at the current offset and the
\* handling of its response (status, feats).
TigerRequest(status, feats) ==
  /\ tiger_pc = "loop"
  /\ Len(tiger_offsets) < MaxRequests
  /\ tiger_offsets' = Append(tiger_offsets, resultOffset)
  /\ tiger_statuses' = Append(tiger_statuses, status)
  /\ IF ~StatusOk(status)
       THEN /\ tiger_error' = <<status>>
            /\ tiger_pc' = "raised"
            /\ UNCHANGED <<resultOffset, tiger_features, tiger_pages, geojson_data>>
       ELSE /\ tiger_pages' = Append(tiger_pages, feats)
            /\ UNCHANGED tiger_error
            /\ IF feats = <<>>
                 THEN /\ tiger_pc' = "returned"
                      /\ geojson_data' = <<tiger_features>>
                      /\ UNCHANGED <<resultOffset, tiger_features>>
                 ELSE /\ tiger_features' = Extend(tiger_features, feats)
                      /\ IF Len(feats) < resultRecordCount
                           THEN /\ tiger_pc' = "returned"
                                /\ geojson_data' = <<tiger_features'>>
                                /\ UNCHANGED resultOffset
                           ELSE /\ resultOffset' = NextOffset(resultOffset)
                                /\ UNCHANGED <<tiger_pc, geojson_data>>
  /\ UNCHANGED geojson_file
  /\ UNCHANGED <<reclassVars, acsVars, joinVars, censusVars, povertyVars>>

\* census_test.py lines 61-65: the returned collection is written to the file.
TigerSave ==
  /\ tiger_pc = "returned"
  /\ geojson_file' = geojson_data
  /\ tiger_pc' = "saved"
  /\ UNCHANGED <<resultOffset, tiger_features, tiger_offsets, tiger_statuses,
                 tiger_pages, tiger_error, geojson_data>>
  /\ UNCHANGED <<reclassVars, acsVars, joinVars, censusVars, povertyVars>>

\* census_test.py lines 66-67: the exception is caught and printed.
TigerReport ==
  /\ tiger_pc = "raised"
  /\ tiger_pc' = "reported"
  /\ UNCHANGED <<resultOffset, tiger_features, tiger_offsets, tiger_statuses,
                 tiger_pages, tiger_error, geojson_data, geojson_file>>
  /\ UNCHANGED <<reclassVars, acsVars, joinVars, censusVars, povertyVars>>

NextTiger ==
  \/ \E status \in StatusCodes, feats \in PageBodies : TigerRequest(status, feats)
  \/ TigerSave
  \/ TigerReport

SpecTiger == InitTiger /\ [][NextTiger]_vars

\* ---------------------------------------------------------------- C3
RECURSIVE Flatten(_)
Flatten(pages) == IF pages = <<>> THEN <<>> ELSE Head(pages) \o Flatten(Tail(pages))

RECURSIVE SumSizes(_)
SumSizes(pages) == IF pages = <<>> THEN 0 ELSE Len(Head(pages)) + SumSizes(Tail(pages))

\* Every page before the last is full and the last is short.
PagedToTheEnd(pages) ==
  /\ pages # <<>>
  /\ \A k \in 1 .. Len(pages) - 1 : Len(pages[k]) = resultRecordCount
  /\ Len(pages[Len(pages)]) < resultRecordCount

\* C3: when every response was a success, every page before the last was full
\* and the last was short, the fetch returns the concatenation of the pages in
\* request order, each page in the order received: sum(n_i) features.
C3_ReturnsConcatenation ==
  (/\ \A k \in 1 .. Len(tiger_statuses) : tiger_statuses[k] = 200
   /\ PagedToTheEnd(tiger_pages)) =>
    /\ tiger_pc \in {"returned", "saved"}
    /\ geojson_data = <<Flatten(tiger_pages)>>
    /\ Len(geojson_data[1]) = SumSizes(tiger_pages)

\* Two full pages then a short one, a feature occurring on several pages.
C3_Witness ==
  /\ tiger_pc = "returned"
  /\ tiger_pages = << <<"a", "b">>, <<"b", "b">>, <<"a">> >>
  /\ geojson_data = << <<"a", "b", "b", "b", "a">> >>

\* ---------------------------------------------------------------- C10
\* C10: a non-200 response on any page ends the fetch with an error that
\* carries the status code: no request follows it, nothing is returned and
\* no output file is written.
C10_ErrorPageIsFatal ==
  \A k \in 1 .. Len(tiger_statuses) :
    tiger_statuses[k] # 200 =>
      /\ k = Len(tiger_statuses)
      /\ tiger_pc \in {"raised", "reported"}
      /\ tiger_error = <<tiger_statuses[k]>>
      /\ geojson_data = <<>>
      /\ geojson_file = <<>>

\* The error arrives after a full page was accumulated, and has been reported.
C10_Witness ==
  /\ tiger_pc = "reported"
  /\ tiger_statuses = <<200, 500>>
  /\ tiger_features = <<"a", "b">>
  /\ tiger_error = <<500>>
  /\ geojson_file = <<>>

\* ================================================== GEOID construction
\* str.zfill(w) on a string of digits: zeros are put in front until the string
\* is w long; a string of w or more characters is returned as it is.
nofill(str, w) == str
RECURSIVE zfill(_, _)
zfill(str, w) == IF Len(str) >= w THEN str ELSE zfill("0" \o str, w)

\* ====================== census_bg_download.py: the batched ACS fetch
Outcomes == {"200 json", "200 not json", "400", "503", "exception"}

\* The fixed identifier columns of a response: NAME first, the geography last.
GeoColumns == <<"state", "county", "tract", "block group">>

VarNames(V) == [k \in 1 .. V |-> "B" \o ToString(k) \o "E"]

\* var_batches = [variables[i:i + batch_size] for i in range(0, len(variables), batch_size)]
var_batches ==
  LET starts == {s \in 0 .. Len(variables) - 1 : s % batch_size = 0}
  IN [k \in 1 .. Cardinality(starts) |->
        SubSeq(variables, (k - 1) * batch_size + 1,
               Min(k * batch_size, Len(variables)))]

\* The value the API gives in column col of the r-th block group of the county.
Cell(col, r) ==
  CASE col = "state" -> "36"
    [] col = "county" -> "005"
    [] col = "tract" -> "000100"
    [] col = "block group" -> ToString(r)
    [] OTHER -> col \o "=" \o ToString(r)

\* response.json() for "get": NAME,<batch>: row 0 is the header. Every batch
\* of a county is the same geography query, and the API answers it with the
\* same acs_rows block groups in the same order.
Response(batch) ==
  LET header == <<"NAME">> \o batch \o GeoColumns
  IN <<header>> \o [r \in 1 .. acs_rows |-> [c \in 1 .. Len(header) |-> Cell(header[c], r)]]

\* time.sleep(2 ** retry)
BackoffLinear(k) == 2 * k
Backoff(k) == 2 ^ k

\* batch_data[row_idx][1:-4]
OwnColumns(row) == SubSeq(row, 2, Len(row) - 4)

\* for row_idx in range(1, len(batch_data)): all_data[row_idx].extend(...)
MergeColumns(table, batch) ==
  [r \in 1 .. Len(table) |->
     IF 2 <= r /\ r <= Len(batch) THEN table[r] \o OwnColumns(batch[r]) ELSE table[r]]

InitAcs ==
  /\ \E V \in 1 .. MaxVars : variables = VarNames(V)
  /\ batch_size \in 1 .. MaxBatch
  /\ acs_rows \in 1 .. MaxAcsRows
  /\ batch_idx = 1
  /\ batch_calls = 1
  /\ batch_ok = <<>>
  /\ retry = 0
  /\ acs_requests = 0
  /\ acs_sleeps = <<>>
  /\ acs_saw200 = FALSE
  /\ acs_last = "none"
  /\ batch_data = <<>>
  /\ all_data = <<>>
  /\ county_data = <<>>
  /\ acs_pc = "attempt"
  /\ IdleReclass
  /\ IdleTiger
  /\ IdleJoin
  /\ IdleCensus
  /\ IdlePoverty

\* fetch_acs_batch lines 100-110: one pass of the retry loop. The request
\* raises, or answers with a status; response.json() of a 200 answer is
\* inside the try as well and raises when the body is not JSON.
AcsAttempt(outcome) ==
  /\ acs_pc = "attempt"
  /\ acs_requests' = acs_requests + 1
  /\ acs_saw200' = (acs_saw200 \/ outcome \in {"200 json", "200 not json"})
  /\ acs_last' = outcome
  /\ IF outcome = "200 json"
       THEN /\ batch_data' = Response(var_batches[batch_idx])
            /\ acs_pc' = "merge"
            /\ UNCHANGED <<retry, acs_sleeps>>
       ELSE /\ acs_sleeps' = Append(acs_sleeps, Backoff(retry))
            /\ IF retry + 1 < max_retries
                 THEN /\ retry' = retry + 1
                      /\ UNCHANGED <<batch_data, acs_pc>>
                 ELSE /\ batch_data' = <<>>
                      /\ acs_pc' = "merge"
                      /\ UNCHANGED retry
  /\ UNCHANGED <<variables, batch_size, acs_rows, batch_idx, batch_calls, batch_ok,
                 all_data, county_data>>
  /\ UNCHANGED <<reclassVars, tigerVars, joinVars, censusVars, povertyVars>>

\* fetch_acs_data_for_county lines 122-134: the returned batch is merged or
\* skipped, and the loop goes to the next batch (a new fetch_acs_batch call).
AcsMerge ==
  /\ acs_pc = "merge"
  /\ batch_ok' = Append(batch_ok, batch_data # <<>>)
  /\ all_data' = IF batch_data = <<>> THEN all_data
                 ELSE IF all_data = <<>> THEN batch_data
                 ELSE MergeColumns(all_data, batch_data)
  /\ IF batch_idx < Len(var_batches)
       THEN /\ batch_idx' = batch_idx + 1
            /\ batch_calls' = batch_calls + 1
            /\ retry' = 0
            /\ acs_requests' = 0
            /\ acs_sleeps' = <<>>
            /\ acs_saw200' = FALSE
            /\ acs_last' = "none"
            /\ batch_data' = <<>>
            /\ acs_pc' = "attempt"
       ELSE /\ acs_pc' = "finish"
            /\ UNCHANGED <<batch_idx, batch_calls, retry, acs_requests, acs_sleeps,
                           acs_saw200, acs_last, batch_data>>
  /\ UNCHANGED <<variables, batch_size, acs_rows, county_data>>
  /\ UNCHANGED <<reclassVars, tigerVars, joinVars, censusVars, povertyVars>>

\* The column of a table row named col.
Column(header, row, col) ==
  row[CHOOSE c \in 1 .. Len(header) : header[c] = col]

\* df["GEOID"] = state.zfill(2) + county.zfill(3) + tract.zfill(6) + block group
BlockGroupGEOID(header, row) ==
  zfill(Column(header, row, "state"), 2) \o zfill(Column(header, row, "county"), 3)
    \o zfill(Column(header, row, "tract"), 6) \o Column(header, row, "block group")

\* pd.DataFrame(all_data[1:], columns=all_data[0]) raises ValueError when the
\* rows do not have as many values as there are column names.
FrameBuilds(table) == \A r \in 2 .. Len(table) : Len(table[r]) = Len(table[1])

\* fetch_acs_data_for_county lines 136-144.
AcsFinish ==
  /\ acs_pc = "finish"
  /\ IF all_data = <<>>
       THEN /\ acs_pc' = "returned_none"
            /\ UNCHANGED county_data
       ELSE IF FrameBuilds(all_data)
         THEN /\ county_data' =
                   << [columns |-> Append(all_data[1], "GEOID"),
                       rows |-> [r \in 1 .. Len(all_data) - 1 |->
                                   Append(all_data[r + 1],
                                          BlockGroupGEOID(all_data[1], all_data[r + 1]))]] >>
              /\ acs_pc' = "returned_df"
         ELSE /\ acs_pc' = "value_error"
              /\ UNCHANGED county_data
  /\ UNCHANGED <<variables, batch_size, acs_rows, batch_idx, batch_calls, batch_ok,
                 retry, acs_requests, acs_sleeps, acs_saw200, acs_last, batch_data,
                 all_data>>
  /\ UNCHANGED <<reclassVars, tigerVars, joinVars, censusVars, povertyVars>>

NextAcs ==
  \/ \E outcome \in Outcomes : AcsAttempt(outcome)
  \/ AcsMerge
  \/ AcsFinish

SpecAcs == InitAcs /\ [][NextAcs]_vars

AcsEnded == acs_pc \in {"finish", "returned_df", "returned_none", "value_error"}

\* ---------------------------------------------------------------- C4
CeilDiv(a, b) == (a + b - 1) \div b

\* C4: with V variables and batch size B the county fetch makes ceil(V/B)
\* batch requests, and every row of the merged table has V values plus the
\* five identifier columns.
C4_RequestsAndRowWidth ==
  AcsEnded =>
    /\ batch_calls = CeilDiv(Len(variables), batch_size)
    /\ \A r \in 1 .. Len(all_data) : Len(all_data[r]) = Len(variables) + 5

\* The parts of C4 the code does keep: the number of batch requests, and the
\* width of the data rows when every batch came back.
C4_RequestCount ==
  AcsEnded => batch_calls = CeilDiv(Len(variables), batch_size)

C4_DataRowWidthWhenAllSucceed ==
  (AcsEnded /\ \A k \in 1 .. Len(batch_ok) : batch_ok[k]) =>
    \A r \in 2 .. Len(all_data) : Len(all_data[r]) = Len(variables) + 5

\* ---------------------------------------------------------------- C8
\* C8 as stated: at most max_retries requests, the call returns the body at
\* the first HTTP 200, sleeps 2^k after the k-th failed attempt, and returns
\* None once all attempts have failed.
C8_ReturnsAtFirst200 ==
  /\ acs_requests <= max_retries
  /\ acs_saw200 => (acs_pc # "attempt" /\ batch_data # <<>>)
  /\ \A k \in 1 .. Len(acs_sleeps) : acs_sleeps[k] = 2 ^ (k - 1)
  /\ (acs_pc # "attempt" /\ ~acs_saw200) =>
       (batch_data = <<>> /\ acs_requests = max_retries)

\* C8 amended: at most max_retries requests; every attempt that fails (the
\* request raises, the status is not 200, or the body of a 200 does not
\* decode) is followed by a sleep of 2^k, k = 0, 1, 2, ...; the call returns
\* the decoded body at the first 200 whose body decodes, with no further
\* request; it returns None after max_retries failed attempts; no exception
\* leaves the call.
C8_BoundedRetryWithBackoff ==
  /\ acs_requests <= max_retries
  /\ \A k \in 1 .. Len(acs_sleeps) : acs_sleeps[k] = 2 ^ (k - 1)
  /\ acs_pc = "attempt" =>
       /\ acs_last # "200 json"
       /\ retry = acs_requests
       /\ Len(acs_sleeps) = acs_requests
       /\ batch_data = <<>>
  /\ (acs_pc # "attempt" /\ acs_last = "200 json") =>
       /\ batch_data = Response(var_batches[batch_idx])
       /\ Len(acs_sleeps) = acs_requests - 1
  /\ (acs_pc # "attempt" /\ acs_last # "200 json") =>
       /\ batch_data = <<>>
       /\ acs_requests = max_retries
       /\ Len(acs_sleeps) = max_retries

\* Every attempt failed, one of them a 200 whose body did not decode: the
\* call slept 1, 2, 4, 8, 16 and returned None.
C8_Witness ==
  /\ acs_pc = "merge"
  /\ batch_data = <<>>
  /\ acs_saw200
  /\ acs_requests = max_retries
  /\ acs_sleeps = <<1, 2, 4, 8, 16>>

\* ---------------------------------------------------------------- C9
\* C9: when fetch_acs_batch returned None for some batch of the county, the
\* county fetch returns None, and no table built from the other batches.
C9_FailedBatchFailsCounty ==
  (/\ acs_pc \in {"returned_df", "returned_none", "value_error"}
   /\ \E k \in 1 .. Len(batch_ok) : ~batch_ok[k]) =>
    /\ acs_pc = "returned_none"
    /\ county_data = <<>>

\* ---------------------------------------------------------------- C11
\* C11: once a request of a fetch_acs_batch call has been answered with
\* HTTP 400, that call issues no further request.
C11_NonTransientIsFatal ==
  [][acs_last = "400" => acs_requests' <= acs_requests]_vars

\* ---------------------------------------------------------------- C18
\* C18: once two or more successful batches have been merged, the header row
\* of the accumulated table has as many columns as every data row.
C18_HeaderWidthMatchesRows ==
  Cardinality({k \in 1 .. Len(batch_ok) : batch_ok[k]}) >= 2 =>
    \A r \in 2 .. Len(all_data) : Len(all_data[r]) = Len(all_data[1])

\* ============ census_download.py, census_bg_download.py: GEOID and merge
\* A boundary feature: [id, STATEFP, COUNTYFP, TRACTCE, BLKGRP, GEOID], id standing
\* for its geometry. A tabular row: [state, county, tract, blockgroup, value,
\* GEOID], value standing for its estimates. GEOID is "" until it is there,
\* and the block group is "" at tract level.
Feature(k, code, bg, geoid) ==
  [id |-> k, STATEFP |-> code[1], COUNTYFP |-> code[2], TRACTCE |-> code[3],
   BLKGRP |-> bg, GEOID |-> geoid]

Row(k, code, bg) ==
  [state |-> code[1], county |-> code[2], tract |-> code[3], blockgroup |-> bg,
   value |-> "row" \o ToString(k), GEOID |-> ""]

\* The tracts of the join runs.
TractCodes ==
  { <<"36", "005", "000100">>, <<"36", "047", "000200">>, <<"36", "061", "000300">> }

Digits == {"0", "1"}

\* The strings of digits of length n, and of length 1 to n.
RECURSIVE DigitStrings(_)
DigitStrings(n) ==
  IF n = 0 THEN {""} ELSE {d \o str : d \in Digits, str \in DigitStrings(n - 1)}

ValidCodes(n) == UNION {DigitStrings(k) : k \in 1 .. n}

\* The GEOID TIGERweb itself attaches to a tract: its full 11-digit code.
ServedGEOID(code) == zfill(code[1], 2) \o zfill(code[2], 3) \o zfill(code[3], 6)

JoinStart(level, has_geoid, codes_b, codes_t) ==
  /\ join_level = level
  /\ tiger_has_geoid = has_geoid
  /\ tiger_gdf = [k \in 1 .. Len(codes_b) |->
                    Feature(k, codes_b[k][1], codes_b[k][2],
                            IF has_geoid THEN ServedGEOID(codes_b[k][1]) ELSE "")]
  /\ acs_df = [k \in 1 .. Len(codes_t) |-> Row(k, codes_t[k][1], codes_t[k][2])]
  /\ merged_gdf = <<>>
  /\ output_geojson = <<>>
  /\ join_pc = IF level = "tract" THEN "acs_geoid" ELSE "tiger_geoid"

Levels == { <<"tract", FALSE>>, <<"tract", TRUE>>, <<"block group", FALSE>> }

BlockGroupOf(level) == IF level = "tract" THEN "" ELSE "1"

\* Joins of up to MaxBoundaries features and MaxTabular rows over TractCodes,
\* a code occurring any number of times on either side.
InitJoin ==
  /\ \E lv \in Levels :
       \E nb \in 1 .. MaxBoundaries, nt \in 1 .. MaxTabular :
         \E cb \in [1 .. nb -> TractCodes], ct \in [1 .. nt -> TractCodes] :
           JoinStart(lv[1], lv[2],
                     [k \in 1 .. nb |-> <<cb[k], BlockGroupOf(lv[1])>>],
                     [k \in 1 .. nt |-> <<ct[k], BlockGroupOf(lv[1])>>])
  /\ IdleReclass
  /\ IdleTiger
  /\ IdleAcs
  /\ IdleCensus
  /\ IdlePoverty

\* One feature and one row, their state, county and tract codes of every
\* valid length, the block group one digit.
InitGeoid ==
  /\ \E lv \in Levels :
       \E st \in ValidCodes(2), co \in ValidCodes(3), tr \in ValidCodes(6) :
         \E bg \in (IF lv[1] = "tract" THEN {""} ELSE DigitStrings(1)) :
           JoinStart(lv[1], lv[2], << <<(<<st, co, tr>>), bg>> >>,
                     << <<(<<st, co, tr>>), bg>> >>)
  /\ IdleReclass
  /\ IdleTiger
  /\ IdleAcs
  /\ IdleCensus
  /\ IdlePoverty

\* census_download.py lines 84-87: state.zfill(2) + county.zfill(3) + tract.zfill(6)
TractGEOID(st, co, tr) == zfill(st, 2) \o zfill(co, 3) \o zfill(tr, 6)

\* census_bg_download.py lines 48-51 and 138-141: the same, then the block group as it is
BlockGroupLevelGEOID(st, co, tr, bg) == zfill(st, 2) \o zfill(co, 3) \o zfill(tr, 6) \o bg

\* The tabular side: census_download.py lines 84-87, census_bg_download.py lines 138-141.
BuildAcsGEOID ==
  /\ join_pc = "acs_geoid"
  /\ acs_df' = [k \in 1 .. Len(acs_df) |->
       LET r == acs_df[k]
           st == zfill(r.state, 2)
           co == zfill(r.county, 3)
           tr == zfill(r.tract, 6)
       IN IF join_level = "tract"
            THEN [r EXCEPT !.state = st, !.county = co, !.tract = tr,
                           !.GEOID = TractGEOID(r.state, r.county, r.tract)]
            ELSE [r EXCEPT !.GEOID =
                    BlockGroupLevelGEOID(r.state, r.county, r.tract, r.blockgroup)]]
  /\ join_pc' = IF join_level = "tract" THEN "tiger_geoid" ELSE "merge"
  /\ UNCHANGED <<join_level, tiger_has_geoid, tiger_gdf, merged_gdf, output_geojson>>
  /\ UNCHANGED <<reclassVars, tigerVars, acsVars, censusVars, povertyVars>>

\* The boundary side: census_download.py lines 139-143 (only when the features
\* bring no GEOID), census_bg_download.py lines 48-51. The attributes are
\* strings already, which astype(str) leaves as they are.
BuildTigerGEOID ==
  /\ join_pc = "tiger_geoid"
  /\ tiger_gdf' = [k \in 1 .. Len(tiger_gdf) |->
       LET f == tiger_gdf[k]
       IN IF join_level = "tract"
            THEN IF tiger_has_geoid THEN f
                 ELSE [f EXCEPT !.STATEFP = zfill(f.STATEFP, 2), !.COUNTYFP = zfill(f.COUNTYFP, 3),
                                !.TRACTCE = zfill(f.TRACTCE, 6),
                                !.GEOID = TractGEOID(f.STATEFP, f.COUNTYFP, f.TRACTCE)]
            ELSE [f EXCEPT !.GEOID =
                    BlockGroupLevelGEOID(f.STATEFP, f.COUNTYFP, f.TRACTCE, f.BLKGRP)]]
  /\ join_pc' = IF join_level = "tract" THEN "merge" ELSE "acs_geoid"
  /\ UNCHANGED <<join_level, tiger_has_geoid, acs_df, merged_gdf, output_geojson>>
  /\ UNCHANGED <<reclassVars, tigerVars, acsVars, censusVars, povertyVars>>

\* One row of the merged frame.
Joined(f, attrs) == [id |-> f.id, GEOID |-> f.GEOID, attrs |-> attrs]

\* how="left": a left row without a match is kept, its right columns NaN.
UnmatchedDropped(f) == <<>>
Unmatched(f) == << Joined(f, "NaN") >>

\* left.merge(right, on="GEOID", how="left"): the left rows in their order,
\* each once per right row with its key, in the right rows' order.
RECURSIVE LeftMerge(_, _)
RightMerge(left, right) ==
  LET pairs == [k \in 1 .. Len(right) |->
                  LET ms == SelectSeq(left, LAMBDA f : f.GEOID = right[k].GEOID)
                  IN [m \in 1 .. Len(ms) |-> Joined(ms[m], right[k].value)]]
      Cat[k \in 0 .. Len(pairs)] == IF k = 0 THEN <<>> ELSE Cat[k - 1] \o pairs[k]
  IN Cat[Len(pairs)]
LeftMerge(left, right) ==
  IF left = <<>> THEN <<>>
  ELSE LET f == Head(left)
           matches == SelectSeq(right, LAMBDA r : r.GEOID = f.GEOID)
       IN (IF matches = <<>> THEN Unmatched(f)
           ELSE [k \in 1 .. Len(matches) |-> Joined(f, matches[k].value)])
          \o LeftMerge(Tail(left), right)

\* census_download.py line 153, census_bg_download.py line 184.
Merge ==
  /\ join_pc = "merge"
  /\ merged_gdf' = LeftMerge(tiger_gdf, acs_df)
  /\ join_pc' = "export"
  /\ UNCHANGED <<join_level, tiger_has_geoid, tiger_gdf, acs_df, output_geojson>>
  /\ UNCHANGED <<reclassVars, tigerVars, acsVars, censusVars, povertyVars>>

\* census_download.py line 160, census_bg_download.py line 188.
Export ==
  /\ join_pc = "export"
  /\ output_geojson' = <<merged_gdf>>
  /\ join_pc' = "done"
  /\ UNCHANGED <<join_level, tiger_has_geoid, tiger_gdf, acs_df, merged_gdf>>
  /\ UNCHANGED <<reclassVars, tigerVars, acsVars, censusVars, povertyVars>>

NextJoin ==
  \/ BuildAcsGEOID
  \/ BuildTigerGEOID
  \/ Merge
  \/ Export

SpecJoin == InitJoin /\ [][NextJoin]_vars

SpecGeoid == InitGeoid /\ [][NextJoin]_vars

\* ================================ census_download.py: the script as a whole
\* The ACS request loop over the counties, the ACS GEOID, the TIGER paging
\* loop, the TIGER GEOID, the merge and the export, in the script's order.
nyc_counties == <<"005", "047", "061", "081", "085">>

\* json_data of a 200 response for a county: the header row, then one row per
\* tract of the county (here one tract each).
CountyResponse(county) ==
  << <<"NAME", "state", "county", "tract">>,
     <<"Census Tract 1", "36", county, "000100">> >>

\* The tract a TIGER feature is the polygon of.
FeatureCode(f) ==
  IF f = "a" THEN <<"36", "005", "000100">> ELSE <<"36", "047", "000100">>

InitCensus ==
  /\ county_idx = 1
  /\ census_header = <<>>
  /\ acs_data_rows = <<>>
  /\ county_errors = <<>>
  /\ census_pc = "counties"
  /\ resultOffset = 0
  /\ tiger_features = <<>>
  /\ tiger_offsets = <<>>
  /\ tiger_statuses = <<>>
  /\ tiger_pages = <<>>
  /\ tiger_error = <<>>
  /\ geojson_data = <<>>
  /\ geojson_file = <<>>
  /\ tiger_pc = "loop"
  /\ join_level = "tract"
  /\ tiger_has_geoid \in BOOLEAN
  /\ tiger_gdf = <<>>
  /\ acs_df = <<>>
  /\ merged_gdf = <<>>
  /\ output_geojson = <<>>
  /\ join_pc = "waiting"
  /\ IdleReclass
  /\ IdleAcs
  /\ IdlePoverty

\* Lines 52-70: one iteration of the loop over nyc_counties. A response other
\* than 200 is printed and the loop continues with the next county.
CountyRequest(status) ==
  /\ census_pc = "counties"
  /\ LET county == nyc_counties[county_idx]
         json_data == CountyResponse(county)
     IN IF ~StatusOk(status)
          THEN /\ county_errors' = Append(county_errors, county)
               /\ UNCHANGED <<census_header, acs_data_rows>>
          ELSE /\ census_header' = IF census_header = <<>> THEN json_data[1]
                                    ELSE census_header
               /\ acs_data_rows' = acs_data_rows \o Tail(json_data)
               /\ UNCHANGED county_errors
  /\ IF county_idx < Len(nyc_counties)
       THEN /\ county_idx' = county_idx + 1
            /\ UNCHANGED census_pc
       ELSE /\ census_pc' = "frame"
            /\ UNCHANGED county_idx
  /\ UNCHANGED <<reclassVars, tigerVars, acsVars, joinVars, povertyVars>>

\* Lines 72-76: without any row the script raises; otherwise the rows become
\* the frame acs_df.
CensusFrame ==
  /\ census_pc = "frame"
  /\ IF acs_data_rows = <<>>
       THEN /\ census_pc' = "raised"
            /\ UNCHANGED <<acs_df, join_pc>>
       ELSE /\ acs_df' = [k \in 1 .. Len(acs_data_rows) |->
                            Row(k, SubSeq(acs_data_rows[k], 2, 4), "")]
            /\ join_pc' = "acs_geoid"
            /\ census_pc' = "framed"
  /\ UNCHANGED <<county_idx, census_header, acs_data_rows, county_errors>>
  /\ UNCHANGED <<join_level, tiger_has_geoid, tiger_gdf, merged_gdf, output_geojson>>
  /\ UNCHANGED <<reclassVars, tigerVars, acsVars, povertyVars>>

\* Lines 112-126, reached once the ACS side has its GEOID.
CensusTigerRequest(status, feats) ==
  /\ census_pc = "framed"
  /\ join_pc = "tiger_geoid"
  /\ TigerRequest(status, feats)

\* Lines 130-132: the features become the frame tiger_gdf. A frame built
\* from no feature has no column, and line 140 raises KeyError.
CensusTigerFrame ==
  /\ census_pc = "framed"
  /\ tiger_pc = "returned"
  /\ IF tiger_features = <<>>
       THEN /\ census_pc' = "raised"
            /\ UNCHANGED <<tiger_gdf, tiger_pc>>
       ELSE /\ tiger_gdf' = [k \in 1 .. Len(tiger_features) |->
                               LET code == FeatureCode(tiger_features[k])
                               IN Feature(k, code, "",
                                    IF tiger_has_geoid THEN ServedGEOID(code) ELSE "")]
            /\ tiger_pc' = "framed"
            /\ UNCHANGED census_pc
  /\ UNCHANGED <<county_idx, census_header, acs_data_rows, county_errors>>
  /\ UNCHANGED <<resultOffset, tiger_features, tiger_offsets, tiger_statuses,
                 tiger_pages, tiger_error, geojson_data, geojson_file>>
  /\ UNCHANGED <<join_level, tiger_has_geoid, acs_df, merged_gdf, output_geojson, join_pc>>
  /\ UNCHANGED <<reclassVars, acsVars, povertyVars>>

\* Lines 139-143, reached once tiger_gdf exists.
CensusTigerGEOID ==
  /\ tiger_pc = "framed"
  /\ BuildTigerGEOID

NextCensus ==
  \/ \E status \in StatusCodes : CountyRequest(status)
  \/ CensusFrame
  \/ BuildAcsGEOID
  \/ \E status \in StatusCodes, feats \in PageBodies : CensusTigerRequest(status, feats)
  \/ CensusTigerFrame
  \/ CensusTigerGEOID
  \/ Merge
  \/ Export

SpecCensus == InitCensus /\ [][NextCensus]_vars

\* ---------------------------------------------------------------- C12
\* C12: the output file is never written by a run in which the ACS request
\* of some county was answered with a status other than 200.
C12_NoCountyDropped == county_errors # <<>> => output_geojson = <<>>

Merged == join_pc \in {"export", "done"}

\* The tabular rows that carry the code of feature f.
MatchesOf(f) == {k \in 1 .. Len(acs_df) : acs_df[k].GEOID = f.GEOID}

\* The merged rows that stem from feature f.
MergedOf(f) == {m \in 1 .. Len(merged_gdf) : merged_gdf[m].id = f.id}

Max(a, b) == IF a >= b THEN a ELSE b

\* The rows a left merge gives for the first n boundary features.
RECURSIVE ExpectedRows(_)
ExpectedRows(n) ==
  IF n = 0 THEN 0
  ELSE Max(1, Cardinality(MatchesOf(tiger_gdf[n]))) + ExpectedRows(n - 1)

\* ---------------------------------------------------------------- C5
\* C5 as stated: the merged frame has as many rows as the boundary frame,
\* however many tabular rows carry a boundary's code.
C5_RowCountPreserved ==
  Merged => Len(merged_gdf) = Len(tiger_gdf)

\* C5 amended: a boundary feature appears once when no tabular row or one
\* tabular row carries its code, and k times when k rows carry it; so the
\* merged frame never has fewer rows than the boundary frame, and has as many
\* when no code is carried by several tabular rows.
C5_RowCountOfLeftMerge ==
  Merged =>
    /\ Len(merged_gdf) = ExpectedRows(Len(tiger_gdf))
    /\ Len(merged_gdf) >= Len(tiger_gdf)
    /\ (\A b \in 1 .. Len(tiger_gdf) : Cardinality(MatchesOf(tiger_gdf[b])) <= 1) =>
         Len(merged_gdf) = Len(tiger_gdf)

\* Three boundaries; one has no tabular row, one has one, one has two.
C5_Witness ==
  /\ Merged
  /\ Len(tiger_gdf) = 3
  /\ \E a, b, c \in 1 .. 3 :
       /\ Cardinality(MatchesOf(tiger_gdf[a])) = 0
       /\ Cardinality(MatchesOf(tiger_gdf[b])) = 1
       /\ Cardinality(MatchesOf(tiger_gdf[c])) = 2
  /\ Len(merged_gdf) = 4

\* ---------------------------------------------------------------- C6
\* C6: every boundary feature is in the merged frame; one whose code no
\* tabular row carries is there once with null attributes, and one whose code
\* is carried is there with the values of the rows that carry it.
C6_LeftOuterJoin ==
  Merged =>
    \A b \in 1 .. Len(tiger_gdf) :
      LET f == tiger_gdf[b] IN
      /\ MergedOf(f) # {}
      /\ MatchesOf(f) = {} =>
           /\ Cardinality(MergedOf(f)) = 1
           /\ \A m \in MergedOf(f) : merged_gdf[m].attrs = "NaN"
      /\ MatchesOf(f) # {} =>
           /\ \A k \in MatchesOf(f) :
                \E m \in MergedOf(f) : merged_gdf[m].attrs = acs_df[k].value
           /\ \A m \in MergedOf(f) :
                \E k \in MatchesOf(f) : merged_gdf[m].attrs = acs_df[k].value

\* The scenario: boundaries 36005000100, 36047000200, 36061000300, rows for
\* 36005000100 and 36061000300: three merged rows, null only for 36047000200.
C6_Witness ==
  /\ join_pc = "done"
  /\ [k \in 1 .. Len(tiger_gdf) |-> tiger_gdf[k].GEOID]
       = <<"36005000100", "36047000200", "36061000300">>
  /\ [k \in 1 .. Len(acs_df) |-> acs_df[k].GEOID] = <<"36005000100", "36061000300">>
  /\ [m \in 1 .. Len(merged_gdf) |-> merged_gdf[m].attrs] = <<"row1", "NaN", "row2">>
  /\ output_geojson = <<merged_gdf>>

\* ---------------------------------------------------------------- C7
\* C7: state, county and tract codes of any valid lengths (1-2, 1-3 and 1-6
\* digits) give, padded and concatenated, a code of 11 characters at tract
\* level, and of 12 with the one-digit block group, on the tabular side and on
\* the boundary side alike.
C7_GeoidLength ==
  LET n == IF join_level = "tract" THEN 11 ELSE 12 IN
  /\ \A k \in 1 .. Len(acs_df) : acs_df[k].GEOID # "" => Len(acs_df[k].GEOID) = n
  /\ \A k \in 1 .. Len(tiger_gdf) : tiger_gdf[k].GEOID # "" => Len(tiger_gdf[k].GEOID) = n
  /\ Merged => /\ \A k \in 1 .. Len(acs_df) : acs_df[k].GEOID # ""
               /\ \A k \in 1 .. Len(tiger_gdf) : tiger_gdf[k].GEOID # ""

\* Short codes on both sides, padded by the script itself.
C7_Witness ==
  /\ join_pc = "merge"
  /\ join_level = "tract"
  /\ ~tiger_has_geoid
  /\ tiger_gdf[1].GEOID = "01001000101"
  /\ acs_df[1].GEOID = "01001000101"
  /\ acs_df[1].tract = "000101"

\* ================================== persistent_poverty.py: reading the CSV
\* The bytes a file is made of here: "A", the two bytes of a UTF-8 e-acute
\* (0xC3 0xA9), the latin-1 e-acute (0xE9) and 0x81, which cp1252 leaves
\* undefined.
FileBytes == {65, 195, 169, 233, 129}

\* A UTF-8 continuation byte.
IsContinuation(b) == b \in 128 .. 191

\* The length of the UTF-8 sequence a byte leads, 0 for a byte that leads none.
SequenceLength(b) ==
  IF b < 128 THEN 1
  ELSE IF b \in 194 .. 223 THEN 2
  ELSE IF b \in 224 .. 239 THEN 3
  ELSE IF b \in 240 .. 244 THEN 4
  ELSE 0

\* The second bytes a lead byte admits (no overlong form, no surrogate,
\* nothing past U+10FFFF).
SecondBytes(b) ==
  IF b = 224 THEN 160 .. 191
  ELSE IF b = 237 THEN 128 .. 159
  ELSE IF b = 240 THEN 144 .. 191
  ELSE IF b = 244 THEN 128 .. 143
  ELSE 128 .. 191

\* The strict UTF-8 decoder accepts the bytes.
RECURSIVE utf8_decodes(_)
utf8_decodes(bytes) ==
  IF bytes = <<>> THEN TRUE
  ELSE LET n == SequenceLength(Head(bytes))
       IN /\ n >= 1
          /\ Len(bytes) >= n
          /\ n >= 2 => bytes[2] \in SecondBytes(Head(bytes))
          /\ \A k \in 3 .. n : IsContinuation(bytes[k])
          /\ utf8_decodes(SubSeq(bytes, n + 1, Len(bytes)))

\* The code points of accepted UTF-8 bytes.
RECURSIVE utf8_decode(_)
utf8_decode(bytes) ==
  IF bytes = <<>> THEN <<>>
  ELSE LET h == Head(bytes)
           n == SequenceLength(h)
           point == IF n = 1 THEN h
                    ELSE IF n = 2 THEN (h - 192) * 64 + (bytes[2] - 128)
                    ELSE IF n = 3 THEN (h - 224) * 4096 + (bytes[2] - 128) * 64
                                         + (bytes[3] - 128)
                    ELSE (h - 240) * 262144 + (bytes[2] - 128) * 4096
                           + (bytes[3] - 128) * 64 + (bytes[4] - 128)
       IN <<point>> \o utf8_decode(SubSeq(bytes, n + 1, Len(bytes)))

\* latin-1 gives every byte the code point of its value.
latin1_decode(bytes) == bytes

\* cp1252 leaves five bytes undefined and moves the others of 0x80-0x9F.
Cp1252Undefined == {129, 141, 143, 144, 157}

Cp1252Point(b) ==
  CASE b = 128 -> 8364 [] b = 130 -> 8218 [] b = 131 -> 402  [] b = 132 -> 8222
    [] b = 133 -> 8230 [] b = 134 -> 8224 [] b = 135 -> 8225 [] b = 136 -> 710
    [] b = 137 -> 8240 [] b = 138 -> 352  [] b = 139 -> 8249 [] b = 140 -> 338
    [] b = 142 -> 381  [] b = 145 -> 8216 [] b = 146 -> 8217 [] b = 147 -> 8220
    [] b = 148 -> 8221 [] b = 149 -> 8226 [] b = 150 -> 8211 [] b = 151 -> 8212
    [] b = 152 -> 732  [] b = 153 -> 8482 [] b = 154 -> 353  [] b = 155 -> 8250
    [] b = 156 -> 339  [] b = 158 -> 382  [] b = 159 -> 376
    [] OTHER -> b

cp1252_decode(bytes) == [k \in 1 .. Len(bytes) |-> Cp1252Point(bytes[k])]

\* read_csv with the encoding does not raise UnicodeDecodeError.
Decodes(encoding, bytes) ==
  CASE encoding = "utf-8" -> utf8_decodes(bytes)
    [] encoding = "latin-1" -> TRUE
    [] encoding = "cp1252" -> \A k \in 1 .. Len(bytes) : bytes[k] \notin Cp1252Undefined

Decode(encoding, bytes) ==
  CASE encoding = "utf-8" -> utf8_decode(bytes)
    [] encoding = "latin-1" -> latin1_decode(bytes)
    [] encoding = "cp1252" -> cp1252_decode(bytes)

\* The except clauses of lines 23-30: what is tried after a decode failure;
\* after cp1252 the UnicodeDecodeError leaves the function (raised again by
\* the handler of lines 62-66).
NoFallback(encoding) == "raised"
Fallback(encoding) ==
  CASE encoding = "utf-8" -> "latin-1"
    [] encoding = "latin-1" -> "cp1252"
    [] encoding = "cp1252" -> "raised"

\* Every file of up to MaxCsvBytes bytes.
InitPoverty ==
  /\ csv_bytes \in UNION {[1 .. n -> FileBytes] : n \in 0 .. MaxCsvBytes}
  /\ csv_tried = <<>>
  /\ poverty_tracts = <<>>
  /\ poverty_pc = "utf-8"
  /\ IdleReclass
  /\ IdleTiger
  /\ IdleAcs
  /\ IdleJoin
  /\ IdleCensus

\* Lines 21-30: one call of pd.read_csv, with the encoding whose turn it is.
ReadCsv ==
  /\ poverty_pc \in {"utf-8", "latin-1", "cp1252"}
  /\ csv_tried' = Append(csv_tried, poverty_pc)
  /\ IF Decodes(poverty_pc, csv_bytes)
       THEN /\ poverty_tracts' = << [encoding |-> poverty_pc,
                                     text |-> Decode(poverty_pc, csv_bytes)] >>
            /\ poverty_pc' = "loaded"
       ELSE /\ poverty_pc' = Fallback(poverty_pc)
            /\ UNCHANGED poverty_tracts
  /\ UNCHANGED csv_bytes
  /\ UNCHANGED <<reclassVars, tigerVars, acsVars, joinVars, censusVars>>

NextPoverty == ReadCsv

SpecPoverty == InitPoverty /\ [][NextPoverty]_vars

\* ---------------------------------------------------------------- C14
\* seq is an initial part of the sequence of.
IsPrefix(seq, of) == Len(seq) <= Len(of) /\ seq = SubSeq(of, 1, Len(seq))

\* C14: the encodings are tried in the order UTF-8, latin-1, cp1252, each
\* only after the one before it failed to decode the file; the load never
\* ends with the decode error raised, and a file that is not UTF-8 is loaded
\* under a legacy encoding.
C14_EncodingFallback ==
  /\ IsPrefix(csv_tried, <<"utf-8", "latin-1", "cp1252">>)
  /\ Len(csv_tried) >= 2 => ~utf8_decodes(csv_bytes)
  \* cp1252 only after latin-1 met a byte it has no code point for
  /\ Len(csv_tried) >= 3 => \E k \in 1 .. Len(csv_bytes) : csv_bytes[k] \notin 0 .. 255
  /\ poverty_pc # "raised"
  /\ poverty_pc \notin {"utf-8", "latin-1", "cp1252"} =>
       /\ poverty_pc = "loaded"
       /\ Len(poverty_tracts) = 1
       /\ poverty_tracts[1].encoding = csv_tried[Len(csv_tried)]
       /\ utf8_decodes(csv_bytes) <=> poverty_tracts[1].encoding = "utf-8"
       /\ ~utf8_decodes(csv_bytes) => poverty_tracts[1].encoding \in {"latin-1", "cp1252"}

\* A file with a latin-1 e-acute: UTF-8 fails, latin-1 loads it.
C14_Witness ==
  /\ csv_bytes = <<65, 233>>
  /\ csv_tried = <<"utf-8", "latin-1">>
  /\ poverty_pc = "loaded"
  /\ poverty_tracts = << [encoding |-> "latin-1", text |-> <<65, 233>>] >>
====
